---- MODULE Spec2Model ----
(***************************************************************************)
(* The 28x28 drawable grid component (PixelGrid28x28).  The repository     *)
(* holds three designs of the component:                                   *)
(*   "dist"     src/app/components/PixelGrid28x28.tsx lines 1-221          *)
(*              (distance brush, radius cellSize/2, rect bounds check)     *)
(*   "line"     src/app/components/PixelGrid28x28.tsx lines 223-553        *)
(*              (distance brush, radius cellSize/2*sqrt2, interpolation,   *)
(*              pointer and touch handlers)                                *)
(*   "pressure" src/unnamed/part_002 (per-cell handlers, pressure brush)   *)
(* The design is fixed by Init and never changes.                          *)
(*                                                                         *)
(* React state: setGrid(...) does not change `grid`; it appends an update  *)
(* to a queue (pending).  A render applies the queue in order and commits  *)
(* the result as the new `grid`; the effect of lines 264-266 then copies   *)
(* the reference into gridRef.current.  Arrays are objects of a heap, so   *)
(* that two references to one array can be told from two equal arrays.     *)
(*                                                                         *)
(* Numbers.  Every intensity the code computes has the form                *)
(* 1 - sqrt(n/m) with n >= 0, m > 0 integers (1 - distance/maxDistance,    *)
(* or a pressure p = 1 - sqrt((1-p)^2)).  Such a number is the tuple       *)
(* <<"num", n, m>> with n/m in lowest terms, which is exact in real        *)
(* arithmetic: 1.0 is <<"num",0,1>>, 0 is <<"num",1,1>>, and n > m is a    *)
(* negative number.  NaN and undefined are tuples of their own.            *)
(*                                                                         *)
(* The page (src/app/page.tsx) holds a ref to the component's handle, null *)
(* until the component is mounted, and reads the grid through              *)
(* getGridVectorFromRef.  Its version badge is fetched from the endpoint   *)
(* of src/unnamed/part_001; that exchange is the specification             *)
(* SpecVersion, in which the grid takes no part.  Strings are sequences of *)
(* one-character strings.                                                  *)
(***************************************************************************)
EXTENDS Integers, Sequences, FiniteSets, TLC

GRID_SIZE == 28
TOTAL_CELLS == GRID_SIZE * GRID_SIZE
cellSize == 14
BORDER_WIDTH == 1

\* bound on the number of queued state updates at which input is still taken
MaxPending == 2
\* pressures are multiples of 1/PressureDen
PressureDen == 2
\* bound on the number of fetchVersion calls
MaxFetches == 2
\* bound on the length of the output of the git command
MaxOutputLen == 2

---------------------------------------------------------------------------
(* JavaScript numbers *)

RECURSIVE GCD(_, _)
GCD(a, b) == IF b = 0 THEN a ELSE GCD(b, a % b)

\* the number 1 - sqrt(n/m)
Num(n, m) == LET g == GCD(n, m) IN <<"num", n \div g, m \div g>>
NaN == <<"NaN", 0, 0>>
undefined == <<"undefined", 0, 0>>
ZERO == Num(1, 1)
ONE == Num(0, 1)
HALF == Num(1, 4)

IsNum(v) == v[1] = "num"
\* n1/m1 <= n2/m2, by continued fractions (no products, so no overflow)
RECURSIVE FracLeq(_, _, _, _)
FracLeq(n1, m1, n2, m2) ==
    LET q1 == n1 \div m1
        q2 == n2 \div m2
        r1 == n1 % m1
        r2 == n2 % m2
    IN  IF q1 # q2 THEN q1 < q2
        ELSE IF r1 = 0 THEN TRUE
        ELSE IF r2 = 0 THEN FALSE
        ELSE FracLeq(m2, r2, m1, r1)
\* a <= b for numbers: 1 - sqrt(na/ma) <= 1 - sqrt(nb/mb)
Leq(a, b) == FracLeq(b[2], b[3], a[2], a[3])
InUnit(v) == IsNum(v) /\ Leq(ZERO, v) /\ Leq(v, ONE)

MathMax(a, b) ==
    IF ~IsNum(a) \/ ~IsNum(b) THEN NaN ELSE IF Leq(a, b) THEN b ELSE a
MathMin(a, b) ==
    IF ~IsNum(a) \/ ~IsNum(b) THEN NaN ELSE IF Leq(a, b) THEN a ELSE b
StrictEq(a, b) == a = b /\ a # NaN

---------------------------------------------------------------------------
(* JavaScript arrays: functions on 0..length-1 *)

Length(arr) == Cardinality(DOMAIN arr)
Get(arr, i) == IF i \in DOMAIN arr THEN arr[i] ELSE undefined
\* arr[i] = v; a write past the end grows the array, the holes read undefined
Put(arr, i, v) ==
    IF i \in DOMAIN arr THEN [arr EXCEPT ![i] = v]
    ELSE [j \in 0..i |-> IF j = i THEN v ELSE Get(arr, j)]
NewZeroArray == [i \in 0..(TOTAL_CELLS - 1) |-> ZERO]

---------------------------------------------------------------------------
(* Inputs *)

NoPoint == <<>>
\* width and height of getBoundingClientRect(): the tracks plus the border
RectSize == GRID_SIZE * cellSize + 2 * BORDER_WIDTH
InRect(p) == p[1] >= 0 /\ p[1] < RectSize /\ p[2] >= 0 /\ p[2] < RectSize

\* Pointer positions relative to the container's bounding rect, in pixels.
\* Design "line": the centre of cell (0,0), a point of cell (0,1), the
\* top left corner of cell (0,2), a point above the grid.
Positions == {<<7, 7>>, <<20, 7>>, <<28, 0>>, <<21, -3>>}
\* Design "dist": the centre and another point of cell (0,0), a point on the
\* right border, one on the bottom border, one left of the rect.
Positions_dist == {<<7, 7>>, <<10, 9>>, <<393, 7>>, <<7, 393>>, <<-3, 7>>}
\* a press or touch start is dispatched to the container only when the
\* pointer is on it; a captured pointer moves and is released anywhere
PressPositions == {p \in Positions : InRect(p)}
PressPositions_dist == {p \in Positions_dist : InRect(p)}
\* a touch list may be empty
TouchInputs == Positions \cup {NoPoint}
TouchStartInputs == PressPositions \cup {NoPoint}
\* the per-cell design gives every cell the same handlers, closed over its
\* row and column: the events are delivered to cell (1,2), index 30
Cells == {<<1, 2>>}
Pressures == 0..PressureDen
Buttons == {0, 1}
---------------------------------------------------------------------------
(* The brush *)

NoCell == [row |-> -1, col |-> -1, intensity |-> NaN]

\* the update closure setCell hands to setGrid: it captures index and value
setCell(row, col, value) ==
    [kind |-> "cell", row |-> row, col |-> col,
     index |-> row * GRID_SIZE + col, value |-> value]
\* setGrid(new Array(TOTAL_CELLS).fill(0))
FillUpdate ==
    [kind |-> "fill", row |-> 0, col |-> 0, index |-> 0, value |-> ZERO]

\* design "line": the position is (px/d, py/d)
getCellFromPosition(px, py, d) ==
    LET col == px \div (d * cellSize)
        row == py \div (d * cellSize)
        ax == 2 * px - (2 * col + 1) * cellSize * d
        ay == 2 * py - (2 * row + 1) * cellSize * d
        n == ax * ax + ay * ay
        m == 2 * d * d * cellSize * cellSize
    IN  IF row < 0 \/ row >= GRID_SIZE \/ col < 0 \/ col >= GRID_SIZE
        THEN NoCell
        ELSE IF n >= m THEN NoCell
        ELSE [row |-> row, col |-> col, intensity |-> Num(n, m)]

paintAtPosition(q, px, py, d) ==
    LET cell == getCellFromPosition(px, py, d)
    IN  IF cell = NoCell THEN q
        ELSE Append(q, setCell(cell.row, cell.col, cell.intensity))

Abs(i) == IF i < 0 THEN -i ELSE i

\* variant of the step count that divides by cellSize, not cellSize / 2
StepsOf_fullCell(previous, position) ==
    LET deltaX == position[1] - previous[1]
        deltaY == position[2] - previous[2]
        dd == deltaX * deltaX + deltaY * deltaY
        top == (Abs(deltaX) + Abs(deltaY)) \div cellSize + 1
        c == CHOOSE k \in 0..top :
                 /\ k * k * cellSize * cellSize >= dd
                 /\ k > 0 => (k - 1) * (k - 1) * cellSize * cellSize < dd
    IN  IF c >= 1 THEN c ELSE 1

\* Math.max(1, Math.ceil(distance / (cellSize / 2))): the least k >= 1 with
\* k * cellSize / 2 >= distance
StepsOf(previous, position) ==
    LET deltaX == position[1] - previous[1]
        deltaY == position[2] - previous[2]
        dd == deltaX * deltaX + deltaY * deltaY
        top == (2 * (Abs(deltaX) + Abs(deltaY))) \div cellSize + 1
        c == CHOOSE k \in 0..top :
                 /\ k * k * cellSize * cellSize >= 4 * dd
                 /\ k > 0 => (k - 1) * (k - 1) * cellSize * cellSize < 4 * dd
    IN  IF c >= 1 THEN c ELSE 1

\* the sample of step `step`: previous + delta * step / steps, over steps
SampleAt(previous, position, steps, step) ==
    <<previous[1] * steps + (position[1] - previous[1]) * step,
      previous[2] * steps + (position[2] - previous[2]) * step,
      steps>>

\* the loop of paintLineToPosition: paintAtPosition at steps 1..steps
paintSteps(q, previous, position, steps) ==
    LET cellAt(step) ==
            LET s == SampleAt(previous, position, steps, step)
            IN  getCellFromPosition(s[1], s[2], s[3])
        cells == [step \in 1..steps |-> cellAt(step)]
        hit == SelectSeq(cells, LAMBDA c : c # NoCell)
    IN  q \o [i \in 1..Len(hit) |->
                 setCell(hit[i].row, hit[i].col, hit[i].intensity)]

\* returns the queue and lastPointRef.current after the call
paintLineToPosition(q, previous, position) ==
    IF previous = NoPoint
    THEN [pending |-> paintAtPosition(q, position[1], position[2], 1),
          lastPoint |-> position]
    ELSE [pending |-> paintSteps(q, previous, position,
                                 StepsOf(previous, position)),
          lastPoint |-> position]

\* design "dist": NoCell when the pointer is outside the bounding rect
getCellFromPointer(x, y) ==
    LET col == x \div cellSize
        row == y \div cellSize
        ax == 2 * x - (2 * col + 1) * cellSize
        ay == 2 * y - (2 * row + 1) * cellSize
        n == ax * ax + ay * ay
        m == cellSize * cellSize
    IN  IF x < 0 \/ y < 0 \/ x >= RectSize \/ y >= RectSize THEN NoCell
        ELSE [row |-> row, col |-> col,
              intensity |-> MathMax(ZERO, Num(n, m))]

paintFromPointer(q, position) ==
    LET cell == getCellFromPointer(position[1], position[2])
    IN  IF cell = NoCell THEN q
        ELSE Append(q, setCell(cell.row, cell.col, cell.intensity))

\* variant of paintFromEvent that takes the reported pressure as it is
paintFromEvent_noDefault(q, k, row, col) ==
    LET intensity ==
            MathMin(ONE, MathMax(ZERO,
                Num((PressureDen - k) * (PressureDen - k),
                    PressureDen * PressureDen)))
    IN  Append(q, setCell(row, col, intensity))

\* design "pressure": pressure is k / PressureDen
paintFromEvent(q, k, row, col) ==
    LET pressure == IF k # 0 /\ k > 0 THEN k ELSE PressureDen
        intensity ==
            MathMin(ONE, MathMax(ZERO,
                Num((PressureDen - pressure) * (PressureDen - pressure),
                    PressureDen * PressureDen)))
    IN  Append(q, setCell(row, col, intensity))

---------------------------------------------------------------------------
(* The updaters, applied at render.  Each returns the array and whether   *)
(* it is a new object.                                                     *)

Updater_line(previous, u) ==
    LET nextValue == MathMin(ONE, MathMax(Get(previous, u.index), u.value))
    IN  IF StrictEq(Get(previous, u.index), nextValue)
        THEN [arr |-> previous, new |-> FALSE]
        ELSE [arr |-> Put(previous, u.index, nextValue), new |-> TRUE]

\* variant of the updater that stores the new value, not the maximum
Updater_dist_overwrite(previous, u) ==
    LET nextValue == MathMin(ONE, MathMax(ZERO, u.value))
    IN  IF StrictEq(Get(previous, u.index), nextValue)
        THEN [arr |-> previous, new |-> FALSE]
        ELSE [arr |-> Put(previous, u.index, nextValue), new |-> TRUE]

Updater_dist(previous, u) ==
    LET clamped == MathMin(ONE, MathMax(ZERO, u.value))
        nextValue == MathMax(Get(previous, u.index), clamped)
    IN  IF StrictEq(Get(previous, u.index), nextValue)
        THEN [arr |-> previous, new |-> FALSE]
        ELSE [arr |-> Put(previous, u.index, nextValue), new |-> TRUE]

Updater_pressure(previous, u) ==
    IF StrictEq(Get(previous, u.index), u.value)
    THEN [arr |-> previous, new |-> FALSE]
    ELSE [arr |-> Put(previous, u.index, u.value), new |-> TRUE]

ApplyUpdate(v, previous, u) ==
    IF u.kind = "fill" THEN [arr |-> NewZeroArray, new |-> TRUE]
    ELSE IF v = "line" THEN Updater_line(previous, u)
    ELSE IF v = "dist" THEN Updater_dist(previous, u)
    ELSE Updater_pressure(previous, u)

\* the queue applied in order, as React processes it
RECURSIVE ApplyQueue(_, _, _, _)
ApplyQueue(v, arr, new, q) ==
    IF q = <<>> THEN [arr |-> arr, new |-> new]
    ELSE LET r == ApplyUpdate(v, arr, Head(q))
         IN  ApplyQueue(v, r.arr, new \/ r.new, Tail(q))

---------------------------------------------------------------------------
(* Strings are sequences of characters.  The version endpoint and the     *)
(* page's version state.                                                   *)

MAJOR_VERSION == 1
\* useState<string>("1.0") and setVersion("1.0")
DefaultVersion == <<"1", ".", "0">>

DigitChars == <<"0", "1", "2", "3", "4", "5", "6", "7", "8", "9">>
IsDigit(c) == \E d \in 1..10 : DigitChars[d] = c
DigitValue(c) == (CHOOSE d \in 1..10 : DigitChars[d] = c) - 1
IsSpace(c) == c \in {" ", "\n"}

\* String.prototype.trim
RECURSIVE trimStart(_)
trimStart(s) ==
    IF s # <<>> /\ IsSpace(Head(s)) THEN trimStart(Tail(s)) ELSE s
RECURSIVE trimEnd(_)
trimEnd(s) ==
    IF s # <<>> /\ IsSpace(s[Len(s)])
    THEN trimEnd(SubSeq(s, 1, Len(s) - 1))
    ELSE s
trim(s) == trimEnd(trimStart(s))

\* the value of the leading digits of s, after the digits read so far
RECURSIVE ParseDigits(_, _)
ParseDigits(s, acc) ==
    IF s # <<>> /\ IsDigit(Head(s))
    THEN ParseDigits(Tail(s), acc * 10 + DigitValue(Head(s)))
    ELSE acc

\* Number.parseInt(s, 10): leading white space, a sign, then the longest
\* prefix of digits; NaN when there is no digit
parseInt(s) ==
    LET t == trimStart(s)
        signed == t # <<>> /\ Head(t) \in {"-", "+"}
        u == IF signed THEN Tail(t) ELSE t
    IN  IF u = <<>> \/ ~IsDigit(Head(u)) THEN [nan |-> TRUE, value |-> 0]
        ELSE [nan |-> FALSE,
              value |-> IF signed /\ Head(t) = "-"
                        THEN 0 - ParseDigits(u, 0)
                        ELSE ParseDigits(u, 0)]

\* `${n}` for an integer n
RECURSIVE NumberToString(_)
NumberToString(n) ==
    IF n < 0 THEN <<"-">> \o NumberToString(0 - n)
    ELSE IF n < 10 THEN <<DigitChars[n + 1]>>
    ELSE NumberToString(n \div 10) \o <<DigitChars[(n % 10) + 1]>>

\* what execSync does: it throws, or returns the output of the command
OutputChars == {"0", "3", "x", "-", "\n"}
GitOutputs ==
    {[throws |-> TRUE, output |-> <<>>]} \cup
    {[throws |-> FALSE, output |-> o] :
        o \in UNION {[1..n -> OutputChars] : n \in 0..MaxOutputLen}}

getMinorVersion(out) ==
    IF out.throws THEN 0
    ELSE LET count == parseInt(trim(out.output))
         IN  IF count.nan THEN 0 ELSE count.value

\* the version of the body GET answers with
GETVersion(out) ==
    NumberToString(MAJOR_VERSION) \o <<".">>
        \o NumberToString(getMinorVersion(out))

\* the ways fetch, response.ok and response.json() make fetchVersion throw
FailureKinds == {"networkError", "notOk", "badBody"}
NoResponse == [kind |-> "none", version |-> <<>>]

---------------------------------------------------------------------------
(* State *)

VARIABLES
    variant,    \* which design of the component is mounted
    heap,       \* the live arrays, by object id
    grid,       \* id of the committed React state `grid`
    gridRef,    \* id of gridRef.current
    returned,   \* id of the array the last getValues() call returned
    pending,    \* the queue of setGrid updates not yet rendered
    isDrawing,  \* isDrawingRef.current
    lastPoint,  \* lastPointRef.current (design "line"), NoPoint for null
    lastEv,     \* history: the kind of the last input event ("press",
                \* "move", "end") or "clear", and whether a stroke was
                \* active when it arrived
    ref,        \* the page's ref to the component handle: "null" until
                \* the component is mounted, then "handle"
    version,    \* the page's state `version`, a string
    fetchPc,    \* where fetchVersion stands: "idle", "waiting" for the
                \* response, "responded"
    fetches,    \* history: the number of fetchVersion calls so far
    response,   \* the outcome of the last fetch("/api/version")
    succeeded   \* history: the version strings of the OK responses that
                \* carried one

vars == <<variant, heap, grid, gridRef, returned, pending, isDrawing,
          lastPoint, lastEv, ref, version, fetchPc, fetches, response,
          succeeded>>

NoRef == -1
Variants == {"dist", "line", "pressure"}

\* the smallest unused object id
FreshId ==
    CHOOSE i \in 0..Cardinality(DOMAIN heap) :
        i \notin DOMAIN heap /\ \A j \in 0..(i - 1) : j \in DOMAIN heap

\* the heap without the unreachable arrays
Collect(h, refs) == [i \in (DOMAIN h \cap refs) |-> h[i]]

\* history of the events
Ev(kind) == lastEv' = [kind |-> kind, wasDrawing |-> isDrawing]

Init ==
    /\ variant \in Variants
    /\ heap = (0 :> NewZeroArray)
    /\ grid = 0
    /\ gridRef = 0
    /\ returned = NoRef
    /\ pending = <<>>
    /\ isDrawing = FALSE
    /\ lastPoint = NoPoint
    /\ lastEv = [kind |-> "init", wasDrawing |-> FALSE]
    /\ ref = "null"
    /\ version = DefaultVersion
    /\ fetchPc = "idle"
    /\ fetches = 0
    /\ response = NoResponse
    /\ succeeded = {}

---------------------------------------------------------------------------
(* React: render and effect *)

\* variant of the render in which only the last queued update counts, as
\* when every update is computed from the `grid` of the rendered closure
Render_lastOnly ==
    /\ pending # <<>>
    /\ grid = gridRef
    /\ LET r == ApplyUpdate(variant, heap[grid], pending[Len(pending)])
           id == FreshId
       IN  IF r.new
           THEN /\ grid' = id
                /\ heap' = Collect(heap @@ (id :> r.arr),
                                   {id, gridRef, returned})
           ELSE UNCHANGED <<grid, heap>>
    /\ pending' = <<>>
    /\ UNCHANGED <<variant, gridRef, returned, isDrawing, lastPoint,
                   lastEv>>

\* a render applies the queued updates and commits the result
Render ==
    /\ pending # <<>>
    /\ grid = gridRef
    /\ LET r == ApplyQueue(variant, heap[grid], FALSE, pending)
           id == FreshId
       IN  IF r.new
           THEN /\ grid' = id
                /\ heap' = Collect(heap @@ (id :> r.arr),
                                   {id, gridRef, returned})
           ELSE UNCHANGED <<grid, heap>>
    /\ pending' = <<>>
    /\ UNCHANGED <<variant, gridRef, returned, isDrawing, lastPoint,
                   lastEv>>

\* useEffect(() => { gridRef.current = grid }, [grid])
GridEffect ==
    /\ grid # gridRef
    /\ gridRef' = grid
    /\ heap' = Collect(heap, {grid, returned})
    /\ UNCHANGED <<variant, grid, returned, pending, isDrawing, lastPoint,
                   lastEv>>

---------------------------------------------------------------------------
(* The imperative handle *)

\* variant of getValues that hands out gridRef.current itself
getValues_alias ==
    /\ returned' = gridRef
    /\ heap' = Collect(heap, {grid, gridRef})
    /\ UNCHANGED <<variant, grid, gridRef, pending, isDrawing, lastPoint,
                   lastEv>>

\* getValues: () => [...gridRef.current]
getValues ==
    /\ LET id == FreshId
       IN  /\ returned' = id
           /\ heap' = Collect(heap @@ (id :> heap[gridRef]),
                              {grid, gridRef, id})
    /\ UNCHANGED <<variant, grid, gridRef, pending, isDrawing, lastPoint,
                   lastEv>>

\* the caller writes into the array it was given
CallerMutate(i, v) ==
    /\ returned # NoRef
    /\ heap' = [heap EXCEPT ![returned] = Put(@, i, v)]
    /\ UNCHANGED <<variant, grid, gridRef, returned, pending, isDrawing,
                   lastPoint,
                   lastEv>>

\* variant of stopDrawing that keeps lastPointRef.current
stopDrawing_keepsLast ==
    /\ isDrawing' = FALSE
    /\ UNCHANGED lastPoint

\* design "line"
stopDrawing ==
    /\ isDrawing' = FALSE
    /\ lastPoint' = NoPoint

\* designs "dist" and "pressure" have no lastPointRef
stopDrawing_dist ==
    /\ isDrawing' = FALSE
    /\ UNCHANGED lastPoint

\* variant of stopDrawing that flips the flag
stopDrawing_toggle ==
    /\ isDrawing' = ~isDrawing
    /\ UNCHANGED lastPoint

stopDrawing_pressure ==
    /\ isDrawing' = FALSE
    /\ UNCHANGED lastPoint

clear ==
    /\ Len(pending) < MaxPending
    /\ pending' = Append(pending, FillUpdate)
    /\ IF variant = "line" THEN stopDrawing
       ELSE IF variant = "dist" THEN stopDrawing_dist
       ELSE stopDrawing_pressure
    /\ Ev("clear")
    /\ UNCHANGED <<variant, heap, grid, gridRef, returned>>

---------------------------------------------------------------------------
(* Design "line": pointer and touch handlers *)

handlePointerDown(position) ==
    /\ variant = "line"
    /\ Len(pending) < MaxPending
    /\ isDrawing' = TRUE
    /\ LET r == paintLineToPosition(pending, lastPoint, position)
       IN  pending' = r.pending /\ lastPoint' = r.lastPoint
    /\ Ev("press")
    /\ UNCHANGED <<variant, heap, grid, gridRef, returned>>

handlePointerMove(position) ==
    /\ variant = "line"
    /\ Len(pending) < MaxPending
    /\ IF ~isDrawing THEN UNCHANGED <<pending, lastPoint>>
       ELSE LET r == paintLineToPosition(pending, lastPoint, position)
            IN  pending' = r.pending /\ lastPoint' = r.lastPoint
    /\ Ev("move")
    /\ UNCHANGED <<variant, heap, grid, gridRef, returned, isDrawing>>

handlePointerUp ==
    /\ variant = "line"
    /\ stopDrawing
    /\ Ev("end")
    /\ UNCHANGED <<variant, heap, grid, gridRef, returned, pending>>

\* variant of handlePointerCancel that only releases the pointer capture
handlePointerCancel_noStop ==
    /\ variant = "line"
    /\ Ev("end")
    /\ UNCHANGED <<variant, heap, grid, gridRef, returned, pending,
                   isDrawing, lastPoint>>

handlePointerCancel ==
    /\ variant = "line"
    /\ stopDrawing
    /\ Ev("end")
    /\ UNCHANGED <<variant, heap, grid, gridRef, returned, pending>>

\* onPointerLeave={stopDrawing}
onPointerLeave ==
    /\ variant = "line"
    /\ stopDrawing
    /\ Ev("end")
    /\ UNCHANGED <<variant, heap, grid, gridRef, returned, pending>>

handleTouchStart(touch) ==
    /\ variant = "line"
    /\ Len(pending) < MaxPending
    /\ IF touch = NoPoint THEN UNCHANGED <<isDrawing, pending, lastPoint>>
       ELSE /\ isDrawing' = TRUE
            /\ LET r == paintLineToPosition(pending, NoPoint, touch)
               IN  pending' = r.pending /\ lastPoint' = r.lastPoint
    /\ Ev("press")
    /\ UNCHANGED <<variant, heap, grid, gridRef, returned>>

handleTouchMove(touch) ==
    /\ variant = "line"
    /\ Len(pending) < MaxPending
    /\ IF ~isDrawing \/ touch = NoPoint THEN UNCHANGED <<pending, lastPoint>>
       ELSE LET r == paintLineToPosition(pending, lastPoint, touch)
            IN  pending' = r.pending /\ lastPoint' = r.lastPoint
    /\ Ev("move")
    /\ UNCHANGED <<variant, heap, grid, gridRef, returned, isDrawing>>

\* variant of handleTouchEnd that stops the stroke before the last segment
handleTouchEnd_stopFirst(touch) ==
    /\ variant = "line"
    /\ Len(pending) < MaxPending
    /\ isDrawing' = FALSE
    /\ IF touch # NoPoint /\ isDrawing
       THEN LET r == paintLineToPosition(pending, NoPoint, touch)
            IN  pending' = r.pending /\ lastPoint' = r.lastPoint
       ELSE pending' = pending /\ lastPoint' = NoPoint
    /\ Ev("end")
    /\ UNCHANGED <<variant, heap, grid, gridRef, returned>>

\* variant of handleTouchEnd without the isDrawingRef.current test
handleTouchEnd_noCheck(touch) ==
    /\ variant = "line"
    /\ Len(pending) < MaxPending
    /\ IF touch # NoPoint
       THEN pending' = paintLineToPosition(pending, lastPoint, touch).pending
       ELSE UNCHANGED pending
    /\ stopDrawing
    /\ Ev("end")
    /\ UNCHANGED <<variant, heap, grid, gridRef, returned>>

handleTouchEnd(touch) ==
    /\ variant = "line"
    /\ Len(pending) < MaxPending
    /\ IF touch # NoPoint /\ isDrawing
       THEN pending' = paintLineToPosition(pending, lastPoint, touch).pending
       ELSE UNCHANGED pending
    /\ stopDrawing
    /\ Ev("end")
    /\ UNCHANGED <<variant, heap, grid, gridRef, returned>>

handleTouchCancel ==
    /\ variant = "line"
    /\ stopDrawing
    /\ Ev("end")
    /\ UNCHANGED <<variant, heap, grid, gridRef, returned, pending>>

---------------------------------------------------------------------------
(* Design "dist": pointer handlers on the container *)

handlePointerDown_dist(position) ==
    /\ variant = "dist"
    /\ Len(pending) < MaxPending
    /\ isDrawing' = TRUE
    /\ pending' = paintFromPointer(pending, position)
    /\ Ev("press")
    /\ UNCHANGED <<variant, heap, grid, gridRef, returned, lastPoint>>

handlePointerMove_dist(position) ==
    /\ variant = "dist"
    /\ Len(pending) < MaxPending
    /\ IF ~isDrawing THEN UNCHANGED pending
       ELSE pending' = paintFromPointer(pending, position)
    /\ Ev("move")
    /\ UNCHANGED <<variant, heap, grid, gridRef, returned, isDrawing,
                   lastPoint>>

handlePointerUp_dist(position) ==
    /\ variant = "dist"
    /\ Len(pending) < MaxPending
    /\ IF isDrawing THEN pending' = paintFromPointer(pending, position)
       ELSE UNCHANGED pending
    /\ stopDrawing_dist
    /\ Ev("end")
    /\ UNCHANGED <<variant, heap, grid, gridRef, returned>>

\* onPointerCancel={stopDrawing} onPointerLeave={stopDrawing}
onPointerEnd_dist(kind) ==
    /\ variant = "dist"
    /\ kind \in {"pointercancel", "pointerleave"}
    /\ stopDrawing_dist
    /\ Ev("end")
    /\ UNCHANGED <<variant, heap, grid, gridRef, returned, pending>>

---------------------------------------------------------------------------
(* Design "pressure": pointer handlers on every cell *)

handlePointerDown_pressure(k, cell) ==
    /\ variant = "pressure"
    /\ Len(pending) < MaxPending
    /\ isDrawing' = TRUE
    /\ pending' = paintFromEvent(pending, k, cell[1], cell[2])
    /\ Ev("press")
    /\ UNCHANGED <<variant, heap, grid, gridRef, returned, lastPoint>>

handlePointerEnter(k, buttons, cell) ==
    /\ variant = "pressure"
    /\ Len(pending) < MaxPending
    /\ IF ~isDrawing \/ buttons = 0 THEN UNCHANGED pending
       ELSE pending' = paintFromEvent(pending, k, cell[1], cell[2])
    /\ Ev("move")
    /\ UNCHANGED <<variant, heap, grid, gridRef, returned, isDrawing,
                   lastPoint>>

\* onPointerUp, onPointerCancel, onPointerLeave = {stopDrawing}
onPointerEnd_pressure(kind) ==
    /\ variant = "pressure"
    /\ kind \in {"pointerup", "pointercancel", "pointerleave"}
    /\ stopDrawing_pressure
    /\ Ev("end")
    /\ UNCHANGED <<variant, heap, grid, gridRef, returned, pending>>

---------------------------------------------------------------------------
(* The page: the handle ref, the vector of the grid, the version *)

gridVars == <<variant, heap, grid, gridRef, returned, pending, isDrawing,
              lastPoint, lastEv>>
versionVars == <<version, fetchPc, fetches, response, succeeded>>

\* the component is mounted: useImperativeHandle fills the page's ref
Mount ==
    /\ ref = "null"
    /\ ref' = "handle"
    /\ UNCHANGED <<gridVars, versionVars>>

\* variant of getGridVectorFromRef that answers an unready ref with []
getGridVectorFromRef_empty ==
    IF ref = "null"
    THEN /\ LET id == FreshId
            IN  /\ returned' = id
                /\ heap' = Collect(heap @@ (id :> [i \in {} |-> ZERO]),
                                   {grid, gridRef, id})
         /\ UNCHANGED <<variant, grid, gridRef, pending, isDrawing,
                        lastPoint, lastEv>>
    ELSE getValues

\* ref.current ? ref.current.getValues() : new Array(TOTAL_CELLS).fill(0)
getGridVectorFromRef ==
    IF ref = "null"
    THEN /\ LET id == FreshId
            IN  /\ returned' = id
                /\ heap' = Collect(heap @@ (id :> NewZeroArray),
                                   {grid, gridRef, id})
         /\ UNCHANGED <<variant, grid, gridRef, pending, isDrawing,
                        lastPoint, lastEv>>
    ELSE getValues

\* fetchVersion up to `await fetch("/api/version")`
fetchVersion ==
    /\ fetchPc = "idle"
    /\ fetches < MaxFetches
    /\ fetchPc' = "waiting"
    /\ fetches' = fetches + 1
    /\ UNCHANGED <<gridVars, ref, version, response, succeeded>>

\* the endpoint answers: NextResponse.json({ version })
GET(out) ==
    /\ fetchPc = "waiting"
    /\ response' = [kind |-> "ok", version |-> GETVersion(out)]
    /\ fetchPc' = "responded"
    /\ UNCHANGED <<gridVars, ref, version, fetches, succeeded>>

\* the fetch fails, the response is not OK or its body is not JSON
fetchFails(kind) ==
    /\ fetchPc = "waiting"
    /\ kind \in FailureKinds
    /\ response' = [kind |-> kind, version |-> <<>>]
    /\ fetchPc' = "responded"
    /\ UNCHANGED <<gridVars, ref, version, fetches, succeeded>>

\* an OK response whose body has no (or an empty) version
respondsWithoutVersion ==
    /\ fetchPc = "waiting"
    /\ response' = [kind |-> "ok", version |-> <<>>]
    /\ fetchPc' = "responded"
    /\ UNCHANGED <<gridVars, ref, version, fetches, succeeded>>

\* variant of the rest of fetchVersion whose catch only logs the error
fetchVersion_then_noFallback ==
    /\ fetchPc = "responded"
    /\ IF response.kind = "ok" /\ response.version # <<>>
       THEN /\ version' = response.version
            /\ succeeded' = succeeded \cup {response.version}
       ELSE UNCHANGED <<version, succeeded>>
    /\ fetchPc' = "idle"
    /\ UNCHANGED <<gridVars, ref, fetches, response>>

\* the rest of fetchVersion, once the fetch has settled
fetchVersion_then ==
    /\ fetchPc = "responded"
    /\ IF response.kind = "ok"
       THEN IF response.version # <<>>
            THEN /\ version' = response.version
                 /\ succeeded' = succeeded \cup {response.version}
            ELSE UNCHANGED <<version, succeeded>>
       ELSE /\ version' = DefaultVersion
            /\ UNCHANGED succeeded
    /\ fetchPc' = "idle"
    /\ UNCHANGED <<gridVars, ref, fetches, response>>

---------------------------------------------------------------------------

EndKinds == {"pointerup", "pointercancel", "pointerleave"}
MutateIndexes == {0}

\* the caller drops the array it was given
CallerDone ==
    /\ returned # NoRef
    /\ returned' = NoRef
    /\ heap' = Collect(heap, {grid, gridRef})
    /\ UNCHANGED <<variant, grid, gridRef, pending, isDrawing, lastPoint,
                   lastEv>>

\* an input event or a clear() call
Input ==
    \/ clear
    \/ \E p \in PressPositions : handlePointerDown(p)
    \/ \E p \in Positions : handlePointerMove(p)
    \/ handlePointerUp
    \/ handlePointerCancel
    \/ onPointerLeave
    \/ \E t \in TouchStartInputs : handleTouchStart(t)
    \/ \E t \in TouchInputs : handleTouchMove(t)
    \/ \E t \in TouchInputs : handleTouchEnd(t)
    \/ handleTouchCancel
    \/ \E p \in PressPositions_dist : handlePointerDown_dist(p)
    \/ \E p \in Positions_dist : handlePointerMove_dist(p)
    \/ \E p \in Positions_dist : handlePointerUp_dist(p)
    \/ \E kind \in EndKinds \ {"pointerup"} : onPointerEnd_dist(kind)
    \/ \E k \in Pressures, c \in Cells : handlePointerDown_pressure(k, c)
    \/ \E k \in Pressures, b \in Buttons, c \in Cells :
           handlePointerEnter(k, b, c)
    \/ \E kind \in EndKinds : onPointerEnd_pressure(kind)

\* JavaScript runs a task to completion: while a caller holds the array it
\* got from getValues(), no event is dispatched and nothing is rendered.
\* The effect of a commit runs before the next input is dispatched; a
\* getValues() call can still fall between the commit and its effect.
\* Events reach the component, and its handle exists, once it is mounted.
Next ==
    \/ Mount
    \/ /\ ref = "handle" /\ returned = NoRef /\ Render
       /\ UNCHANGED <<ref, versionVars>>
    \/ /\ ref = "handle" /\ returned = NoRef /\ GridEffect
       /\ UNCHANGED <<ref, versionVars>>
    \/ /\ ref = "handle" /\ returned = NoRef /\ grid = gridRef /\ Input
       /\ UNCHANGED <<ref, versionVars>>
    \/ ref = "handle" /\ getValues /\ UNCHANGED <<ref, versionVars>>
    \/ getGridVectorFromRef /\ UNCHANGED <<ref, versionVars>>
    \/ /\ \E i \in MutateIndexes : CallerMutate(i, HALF)
       /\ UNCHANGED <<ref, versionVars>>
    \/ CallerDone /\ UNCHANGED <<ref, versionVars>>

Spec == Init /\ [][Next]_vars

\* the page's version fetch; the grid takes no part in it
NextVersion ==
    \/ fetchVersion
    \/ \E out \in GitOutputs : GET(out)
    \/ \E kind \in FailureKinds : fetchFails(kind)
    \/ respondsWithoutVersion
    \/ fetchVersion_then

SpecVersion == Init /\ [][NextVersion]_vars

---------------------------------------------------------------------------
(* Properties *)

CellIndexes == 0..(TOTAL_CELLS - 1)
\* what a getValues() call made in this state returns
Values == heap[gridRef]
\* the grid once every queued update is committed
Settled == ApplyQueue(variant, heap[grid], FALSE, pending).arr
NoFillQueued == \A k \in 1..Len(pending) : pending[k].kind # "fill"

PressStep ==
    \/ \E p \in PressPositions : handlePointerDown(p)
    \/ \E t \in TouchStartInputs : handleTouchStart(t)
    \/ \E p \in PressPositions_dist : handlePointerDown_dist(p)
    \/ \E k \in Pressures, c \in Cells : handlePointerDown_pressure(k, c)
MoveStep ==
    \/ \E p \in Positions : handlePointerMove(p)
    \/ \E t \in TouchInputs : handleTouchMove(t)
    \/ \E p \in Positions_dist : handlePointerMove_dist(p)
    \/ \E k \in Pressures, b \in Buttons, c \in Cells :
           handlePointerEnter(k, b, c)
EndStep ==
    \/ handlePointerUp
    \/ handlePointerCancel
    \/ onPointerLeave
    \/ \E t \in TouchInputs : handleTouchEnd(t)
    \/ handleTouchCancel
    \/ \E p \in Positions_dist : handlePointerUp_dist(p)
    \/ \E kind \in EndKinds : onPointerEnd_dist(kind)
    \/ \E kind \in EndKinds : onPointerEnd_pressure(kind)

\* C1: after any sequence of events, getValues() returns exactly 784
\* entries and every entry is a number in [0,1].
C1_ValuesShape ==
    /\ Length(Values) = TOTAL_CELLS
    /\ \A i \in DOMAIN Values : InUnit(Values[i])

\* C2: while no clear() is queued, no step decreases the stored value of
\* any cell: the value after the step is a number >= the value before it.
C2_NeverDecreases ==
    [][NoFillQueued =>
         \A i \in CellIndexes :
             /\ IsNum(Get(heap'[grid'], i))
             /\ Leq(Get(heap[grid], i), Get(heap'[grid'], i))]_vars

\* C3: a getValues() call made right after clear() returns yields 0 at
\* every index.
C3_ClearIsSynchronous ==
    [][clear => \A i \in DOMAIN heap'[gridRef'] :
                    heap'[gridRef'][i] = ZERO]_vars

\* C4: getValues() changes neither the grid, the drawing flag, the last
\* position nor the queue and returns the entries of gridRef.current; a
\* write of the caller into the returned array changes neither the
\* committed grid nor what a later getValues() returns.
C4_ValuesAreACopy ==
    [][/\ getValues =>
            /\ heap'[grid'] = heap[grid]
            /\ heap'[gridRef'] = heap[gridRef]
            /\ heap'[returned'] = heap[gridRef]
            /\ <<isDrawing', lastPoint', pending'>>
                   = <<isDrawing, lastPoint, pending>>
       /\ (\E i \in MutateIndexes : CallerMutate(i, HALF)) =>
            /\ heap'[grid'] = heap[grid]
            /\ heap'[gridRef'] = heap[gridRef]]_vars

\* the caller holds an array it has written to, of a grid that was painted
C4_Witness ==
    /\ returned # NoRef
    /\ heap[returned][0] = HALF
    /\ Values[0] # HALF
    /\ \E i \in CellIndexes : Values[i] # ZERO

\* the queue after one application of the brush at a press position
BrushOnce(q, p) ==
    IF variant = "line" THEN paintAtPosition(q, p[1], p[2], 1)
    ELSE paintFromPointer(q, p)

\* C5: clear() leaves the state idle with no last position, also when a
\* stroke is active; from there the state stays so until a press, a move
\* queues no write, and a press queues exactly the brush at the press
\* position and starts a stroke.
C5_ClearMidStroke ==
    [][/\ clear => (~isDrawing' /\ lastPoint' = NoPoint)
       /\ (~isDrawing /\ lastPoint = NoPoint /\ ~PressStep) =>
              (~isDrawing' /\ lastPoint' = NoPoint)
       /\ (~isDrawing /\ lastPoint = NoPoint /\ MoveStep) =>
              pending' = pending
       /\ \A p \in PressPositions :
              (lastEv.kind = "clear" /\
               (handlePointerDown(p) \/ handleTouchStart(p))) =>
                  (pending' = BrushOnce(pending, p) /\ isDrawing')
       /\ \A p \in PressPositions_dist :
              (lastEv.kind = "clear" /\ handlePointerDown_dist(p)) =>
                  (pending' = BrushOnce(pending, p) /\ isDrawing')
       /\ \A k \in Pressures, c \in Cells :
              (lastEv.kind = "clear" /\ handlePointerDown_pressure(k, c)) =>
                  (pending' = paintFromEvent(pending, k, c[1], c[2])
                   /\ isDrawing')]_vars

\* clear() was just called during a stroke
C5_Witness ==
    /\ lastEv = [kind |-> "clear", wasDrawing |-> TRUE]
    /\ ~isDrawing
    /\ lastPoint = NoPoint
    /\ pending # <<>>
    /\ pending[Len(pending)].kind = "fill"

\* C6: a clear() that follows a clear() changes neither the drawing flag,
\* the last position, what getValues() returns, nor the grid that results
\* once the queue is committed.
C6_ClearIdempotent ==
    [][(clear /\ lastEv.kind = "clear") =>
          /\ isDrawing' = isDrawing
          /\ lastPoint' = lastPoint
          /\ heap'[gridRef'] = heap[gridRef]
          /\ ApplyQueue(variant', heap'[grid'], FALSE, pending').arr
                 = Settled]_vars

\* two clear() calls in a row are queued
C6_Witness ==
    /\ lastEv.kind = "clear"
    /\ Len(pending) >= 2
    /\ pending[Len(pending)].kind = "fill"
    /\ pending[Len(pending) - 1].kind = "fill"

\* C7: a release, cancel, leave, touch-end or touch-cancel event that
\* arrives when no stroke is active queues no write, leaves the grid as it
\* is and leaves the state idle with no last position.
C7_StrayEnd ==
    [][(EndStep /\ ~isDrawing) =>
          /\ pending' = pending
          /\ heap'[grid'] = heap[grid]
          /\ heap'[gridRef'] = heap[gridRef]
          /\ ~isDrawing'
          /\ lastPoint' = NoPoint]_vars

\* an end event has arrived in state idle
C7_Witness ==
    /\ lastEv = [kind |-> "end", wasDrawing |-> FALSE]
    /\ ~isDrawing
    /\ lastPoint = NoPoint

\* C8: no write is queued for a brush sample whose row or column is
\* outside [0,28).
C8_OutOfRangeRejected ==
    \A k \in 1..Len(pending) :
        pending[k].kind = "cell" =>
            /\ pending[k].row \in 0..(GRID_SIZE - 1)
            /\ pending[k].col \in 0..(GRID_SIZE - 1)

\* C9: after every release, cancel, leave, touch-end or touch-cancel event
\* the state is idle and the last position is null.
C9_EndEndsStroke ==
    lastEv.kind = "end" => (~isDrawing /\ lastPoint = NoPoint)

\* an end event has arrived during a stroke
C9_Witness ==
    /\ lastEv = [kind |-> "end", wasDrawing |-> TRUE]
    /\ ~isDrawing
    /\ lastPoint = NoPoint

\* the position is the exact centre of a cell of the grid
IsCentre(p) ==
    \E r, c \in 0..(GRID_SIZE - 1) :
        2 * p[1] = (2 * c + 1) * cellSize /\ 2 * p[2] = (2 * r + 1) * cellSize
CentreIndex(p) == (p[2] \div cellSize) * GRID_SIZE + (p[1] \div cellSize)
AllZero(arr) == arr = NewZeroArray

\* C10: on an all-zero grid with nothing queued, a press at the exact
\* centre of a cell yields, once committed, 1.0 at the index of that cell
\* and 0 at every other index.
C10_CentrePress ==
    [][\A p \in PressPositions \cup PressPositions_dist :
          (/\ IsCentre(p)
           /\ AllZero(heap[grid])
           /\ pending = <<>>
           /\ \/ handlePointerDown(p)
              \/ handleTouchStart(p)
              \/ handlePointerDown_dist(p)) =>
              ApplyQueue(variant', heap'[grid'], FALSE, pending').arr
                  = [NewZeroArray EXCEPT ![CentreIndex(p)] = ONE]]_vars

\* the grid that results from state q of the queue on the committed array
SettledOf(arr, q) == ApplyQueue(variant, arr, FALSE, q).arr
\* the step applies the brush once, at position p
BrushOnceStep(p) ==
    \/ lastPoint = NoPoint /\ p \in PressPositions /\ handlePointerDown(p)
    \/ p \in PressPositions /\ handleTouchStart(p)
    \/ p \in PressPositions_dist /\ handlePointerDown_dist(p)
    \/ isDrawing /\ handlePointerMove_dist(p)
    \/ isDrawing /\ handlePointerUp_dist(p)

\* C11: a single brush application at a position (x,y) changes at most the
\* cell (floor(y/S), floor(x/S)) that contains the position, and no cell
\* when the position is in none; every other entry stays as it was.  A
\* click at (20,7) changes at most index 1.
C11_SingleCell ==
    [][\A p \in Positions \cup Positions_dist :
          BrushOnceStep(p) =>
              LET row == p[2] \div cellSize
                  col == p[1] \div cellSize
                  inGrid == /\ row \in 0..(GRID_SIZE - 1)
                            /\ col \in 0..(GRID_SIZE - 1)
                  before == SettledOf(heap[grid], pending)
                  after == SettledOf(heap'[grid'], pending')
              IN  /\ DOMAIN after = DOMAIN before
                  /\ \A i \in DOMAIN before :
                         (~inGrid \/ i # row * GRID_SIZE + col) =>
                             after[i] = before[i]
                  /\ p = <<20, 7>> => inGrid /\ row * GRID_SIZE + col = 1]_vars

\* C12: getGridVectorFromRef called with a ref that is still null returns
\* a vector of exactly 784 zeros (it does not fail, and the component is
\* left as it is); with a filled ref it returns what getValues() returns.
C12_VectorFromRef ==
    [][getGridVectorFromRef =>
          /\ returned' # NoRef
          /\ IF ref = "null"
             THEN /\ DOMAIN heap'[returned'] = 0..783
                  /\ \A i \in 0..783 : heap'[returned'][i] = ZERO
                  /\ heap'[grid'] = heap[grid]
                  /\ heap'[gridRef'] = heap[gridRef]
             ELSE /\ heap'[returned'] = Values
                  /\ getValues]_vars

\* the vector was asked for before the component was mounted
C12_Witness ==
    /\ ref = "null"
    /\ returned # NoRef
    /\ Length(heap[returned]) = TOTAL_CELLS

\* the output of the git command is a plain count: digits with no leading
\* zero, and the line end
IsPlainCount(o) ==
    /\ Len(o) >= 1
    /\ \E n \in 1..Len(o) :
           /\ \A i \in 1..n : IsDigit(o[i])
           /\ \A i \in (n + 1)..Len(o) : o[i] = "\n"
           /\ (o[1] = "0" => n = 1)
\* the digits of a plain count
CountDigits(o) == SelectSeq(o, IsDigit)
\* the output does not start, after white space, with a number
CannotCompute(out) ==
    \/ out.throws
    \/ \A i \in 1..Len(out.output) :
           (/\ \A j \in 1..(i - 1) : IsSpace(out.output[j])
            /\ ~IsSpace(out.output[i])) =>
               /\ ~IsDigit(out.output[i])
               /\ ~(/\ out.output[i] \in {"-", "+"}
                    /\ i < Len(out.output)
                    /\ IsDigit(out.output[i + 1]))

\* the version the endpoint is to answer with, for the outputs the claim
\* speaks of: "1.0" when the count cannot be computed, "1.<count>" for a
\* plain count (<<>>: any)
ExpectedVersion ==
    [out \in GitOutputs |->
        IF CannotCompute(out) THEN <<"1", ".", "0">>
        ELSE IF IsPlainCount(out.output)
             THEN <<"1", ".">> \o CountDigits(out.output)
             ELSE <<>>]

\* C13: when the version fetch fails (network error, non-OK response,
\* unparsable body) the page's version becomes "1.0"; the endpoint answers
\* "1.<count>" for a merge count and "1.0" when the count cannot be computed;
\* the version shown is always "1.0" or the version of an OK response.
C13_VersionFallback ==
    [][/\ (fetchVersion_then /\ response.kind \in FailureKinds) =>
              version' = <<"1", ".", "0">>
       /\ \A out \in GitOutputs :
              (ExpectedVersion[out] \notin {<<>>, response'.version}) =>
                  ~GET(out)
       /\ \/ version' = <<"1", ".", "0">>
          \/ version' \in succeeded']_vars

\* a fetch has failed after one that had set another version
C13_Witness ==
    /\ fetchPc = "idle"
    /\ response.kind \in FailureKinds
    /\ version = <<"1", ".", "0">>
    /\ \E v \in succeeded : v # <<"1", ".", "0">>

\* C14: every press-down or touch-start event, in whichever state it
\* arrives, queues exactly the brush at the press position (nothing along a
\* segment from an earlier position) and leaves the state drawing, with the
\* last position equal to the press position.
C14_PressPaintsOnce ==
    [][/\ \A p \in PressPositions \cup PressPositions_dist :
              (\/ p \in PressPositions /\ handlePointerDown(p)
               \/ p \in PressPositions /\ handleTouchStart(p)
               \/ p \in PressPositions_dist /\ handlePointerDown_dist(p)) =>
                  /\ pending' = BrushOnce(pending, p)
                  /\ isDrawing'
                  /\ variant = "line" => lastPoint' = p
       /\ \A k \in Pressures, c \in Cells :
              handlePointerDown_pressure(k, c) =>
                  /\ Len(pending') = Len(pending) + 1
                  /\ SubSeq(pending', 1, Len(pending)) = pending
                  /\ pending'[Len(pending')].index = c[1] * GRID_SIZE + c[2]
                  /\ isDrawing']_vars

\* the squared length of P Q
SquaredLength(P, Q) ==
    (Q[1] - P[1]) * (Q[1] - P[1]) + (Q[2] - P[2]) * (Q[2] - P[2])
\* max(1, ceil(|PQ| / (S/2))): the least n >= 1 with n * S/2 >= |PQ|
StepCount(P, Q) ==
    CHOOSE n \in 1..(SquaredLength(P, Q) + 1) :
        /\ n * n * cellSize * cellSize >= 4 * SquaredLength(P, Q)
        /\ \A m \in 1..(n - 1) :
               m * m * cellSize * cellSize < 4 * SquaredLength(P, Q)
\* the queue after the brush at the points P + (k/n)(Q - P), k..n, in order
RECURSIVE BrushAlong(_, _, _, _, _)
BrushAlong(q, P, Q, n, k) ==
    IF k > n THEN q
    ELSE BrushAlong(paintAtPosition(q, n * P[1] + k * (Q[1] - P[1]),
                                       n * P[2] + k * (Q[2] - P[2]), n),
                    P, Q, n, k + 1)

\* C15: a move in state drawing from the last position P to Q queues the
\* brush at exactly the n = max(1, ceil(|PQ| / (S/2))) points
\* P + (k/n)(Q - P), k = 1..n, in this order; these are at most S/2 apart,
\* and afterwards the last position is Q.
C15_Interpolation ==
    [][\A Q \in Positions :
          (/\ isDrawing
           /\ lastPoint # NoPoint
           /\ handlePointerMove(Q) \/ handleTouchMove(Q)) =>
              LET n == StepCount(lastPoint, Q)
              IN  /\ pending' = BrushAlong(pending, lastPoint, Q, n, 1)
                  /\ 4 * SquaredLength(lastPoint, Q)
                         <= n * n * cellSize * cellSize
                  /\ lastPoint' = Q]_vars

\* a move of more than a cell was made during a stroke
C15_Witness ==
    /\ variant = "line"
    /\ lastEv = [kind |-> "move", wasDrawing |-> TRUE]
    /\ lastPoint = <<28, 0>>
    /\ Len(pending) >= 4

\* a pointermove event that reports `buttons` is delivered at position p:
\* onPointerMove={handlePointerMove}, and the handlers do not read buttons
PointerMoveEvent(buttons, p) ==
    /\ buttons \in Buttons
    /\ \/ p \in Positions /\ handlePointerMove(p)
       \/ p \in Positions_dist /\ handlePointerMove_dist(p)
\* the step queues no write and leaves the grid and the last position
NothingPainted ==
    /\ pending' = pending
    /\ heap'[grid'] = heap[grid]
    /\ lastPoint' = lastPoint

\* C16: a move (pointer-move, touch-move, pointer-enter) in state idle, or
\* in state drawing while the device reports no button held (no active
\* touch), queues no write and leaves the grid and the last position
\* unchanged.
C16_MoveNeedsEngaged ==
    [][/\ \A b \in Buttons, p \in Positions \cup Positions_dist :
              (PointerMoveEvent(b, p) /\ (~isDrawing \/ b = 0)) =>
                  NothingPainted
       /\ \A t \in TouchInputs :
              (handleTouchMove(t) /\ (~isDrawing \/ t = NoPoint)) =>
                  NothingPainted
       /\ \A k \in Pressures, b \in Buttons, c \in Cells :
              (handlePointerEnter(k, b, c) /\ (~isDrawing \/ b = 0)) =>
                  NothingPainted]_vars

\* C17: in the pressure brush, a press or enter event that reports zero
\* pressure leaves every cell unchanged, also once the queue is committed.
C17_ZeroPressureNoOp ==
    [][\A b \in Buttons, c \in Cells :
          (handlePointerDown_pressure(0, c) \/ handlePointerEnter(0, b, c)) =>
              /\ heap'[grid'] = heap[grid]
              /\ SettledOf(heap'[grid'], pending')
                     = SettledOf(heap[grid], pending)]_vars

\* C17 as amended: in the pressure brush, a press, or an enter in state
\* drawing with a button held, that reports zero pressure is taken as full
\* pressure: once committed, the cell of the event holds 1.0 and every other
\* cell is unchanged.
C17_ZeroPressureIsFull ==
    [][\A b \in Buttons, c \in Cells :
          (\/ handlePointerDown_pressure(0, c)
           \/ isDrawing /\ b # 0 /\ handlePointerEnter(0, b, c)) =>
              SettledOf(heap'[grid'], pending')
                  = [SettledOf(heap[grid], pending)
                         EXCEPT ![c[1] * GRID_SIZE + c[2]] = ONE]]_vars

\* a press has queued a write of 1.0 over a lighter committed cell
C17_Witness ==
    /\ variant = "pressure"
    /\ lastEv.kind = "press"
    /\ pending # <<>>
    /\ pending[Len(pending)].kind = "cell"
    /\ pending[Len(pending)].value = ONE
    /\ heap[grid][pending[Len(pending)].index] = HALF

\* the array after the updates of q, the first one first
RECURSIVE InOrder(_, _)
InOrder(arr, q) ==
    IF q = <<>> THEN arr
    ELSE ApplyUpdate(variant, InOrder(arr, SubSeq(q, 1, Len(q) - 1)),
                     q[Len(q)]).arr

\* C18: what getValues() reads changes only by becoming the committed grid,
\* and getValues() returns it; events only append to the queue, a commit
\* applies the whole queue in the order of the events and empties it, so
\* that the committed grid is the result of all writes and clears in event
\* order: the writes queued before a clear are erased, those queued after it
\* survive.
C18_UpdateOrder ==
    [][/\ gridRef' # gridRef => gridRef' = grid
       /\ heap'[gridRef'] # heap[gridRef] => heap'[gridRef'] = heap[grid]
       /\ getValues => heap'[returned'] = heap[gridRef]
       /\ (pending # <<>> /\ pending' = <<>>) =>
              heap'[grid'] = InOrder(heap[grid], pending)
       /\ pending' # <<>> =>
              /\ Len(pending') >= Len(pending)
              /\ SubSeq(pending', 1, Len(pending)) = pending
              /\ heap'[grid'] = heap[grid]
       /\ pending' # pending =>
              \A k \in 1..Len(pending') :
                  pending'[k].kind = "fill" =>
                      SettledOf(heap'[grid'], pending')
                          = InOrder(NewZeroArray,
                                    SubSeq(pending', k + 1, Len(pending')))]_vars

\* a write and then a clear are queued on a painted grid
C18_Witness ==
    /\ Len(pending) = 2
    /\ pending[1].kind = "cell"
    /\ pending[2].kind = "fill"
    /\ heap[grid] # NewZeroArray

\* C19: in every reachable state a non-null last position implies that a
\* stroke is active: when the component is idle the last position is null.
C19_LastPointOnlyWhenDrawing ==
    lastPoint # NoPoint => isDrawing

\* a stroke was committed and ended, and a new stroke has begun elsewhere
C19_Witness ==
    /\ variant = "line"
    /\ lastEv = [kind |-> "press", wasDrawing |-> FALSE]
    /\ isDrawing
    /\ lastPoint = <<20, 7>>
    /\ heap[grid][0] = ONE

\* C20: a release, cancel, leave, touch-end or touch-cancel event that
\* arrives in state drawing leaves every cell exactly as it was, also once
\* the queue is committed.
C20_EndLeavesGrid ==
    [][(EndStep /\ isDrawing) =>
          /\ heap'[grid'] = heap[grid]
          /\ SettledOf(heap'[grid'], pending')
                 = SettledOf(heap[grid], pending)]_vars

\* an end event whose handler does not paint
PlainEndStep ==
    \/ handlePointerUp
    \/ handlePointerCancel
    \/ onPointerLeave
    \/ handleTouchCancel
    \/ handleTouchEnd(NoPoint)
    \/ \E kind \in EndKinds : onPointerEnd_dist(kind)
    \/ \E kind \in EndKinds : onPointerEnd_pressure(kind)

\* C20 as amended: in state drawing, a cancel, leave or touch-cancel event,
\* a touch-end without a position and a pointer release of the designs that
\* do not paint on release queue no write and leave every cell as it was;
\* the pointer release of the design of lines 1-221 queues the brush at the
\* release position, and a touch-end with a position queues the brush along
\* the segment from the last position to it; no end event lowers a cell or
\* changes the committed grid, and each ends the stroke.
C20_EndPaintsAtMostTheLastPoint ==
    [][(EndStep /\ isDrawing) =>
          /\ ~isDrawing'
          /\ heap'[grid'] = heap[grid]
          /\ \A before \in {SettledOf(heap[grid], pending)} :
                 \A after \in {SettledOf(heap'[grid'], pending')} :
                     \A i \in CellIndexes :
                         after[i] # before[i] => Leq(before[i], after[i])
          /\ PlainEndStep => pending' = pending
          /\ \A p \in Positions_dist :
                 handlePointerUp_dist(p) =>
                     pending' = paintFromPointer(pending, p)
          /\ \A t \in Positions :
                 handleTouchEnd(t) =>
                     pending' = BrushAlong(pending, lastPoint, t,
                                           StepCount(lastPoint, t), 1)]_vars

\* a stroke has ended with a lighter write queued on its first cell
C20_Witness ==
    /\ variant = "dist"
    /\ lastEv = [kind |-> "end", wasDrawing |-> TRUE]
    /\ ~isDrawing
    /\ Len(pending) = 2
    /\ pending[1].value = ONE
    /\ pending[2].index = 0
    /\ pending[2].value # ONE

====
